---- MODULE Spec2Model ----
(***************************************************************************)
(* A model of optimisation.py: the menu session of main (New Graph, Load   *)
(* Graph, Calculate, Save), the graph readers create_graph and load, the   *)
(* result writer save, and the two linear programs built by                *)
(* fractional_clique_cover and shannon_entropy.                            *)
(*                                                                         *)
(* A graph is the insertion-ordered node list of networkx (G.nodes) and    *)
(* the neighbour set of every node.  A subset key is a tuple of nodes.  A  *)
(* file is a list of lines and a line is a list of tokens (an integer      *)
(* literal or a piece of other text).  The LP solver is outside the        *)
(* program: a solve is a choice of the status it reports and of whether    *)
(* the variables carry values; the values themselves are not computed and  *)
(* every reported value is represented by the variables' lower bound.      *)
(***************************************************************************)
EXTENDS Integers, Sequences, FiniteSets

VARIABLES pc, x, G, fcc, shannon_ent, fcc_vals, shannon_vals,
          written, cover, entropy, err

vars == <<pc, x, G, fcc, shannon_ent, fcc_vals, shannon_vals,
          written, cover, entropy, err>>

----------------------------------------------------------------------------
(* Bounds of the inputs.                                                   *)

\* create_graph: the node count the user may enter is at most MaxNodes
MaxNodes == 3
\* create_graph: at most MaxEdges edge entries are typed
MaxEdges == 2
\* load: vertex numbers in a file's edge list lie in -1..MaxVertex, and the
\* count on its first line in 0..MaxVertex+1
MaxVertex == 1
\* load: a file's edge list has at most MaxFileEdges entries
MaxFileEdges == 1

----------------------------------------------------------------------------
(* Program constants.                                                      *)

\* the "no result yet" value of fcc and shannon_ent
NoResult == -1
\* lowBound of every LP variable
lowBound == 0

----------------------------------------------------------------------------
(* Tuples and sets.                                                        *)

Range(s) == {s[i] : i \in 1..Len(s)}

IsDistinct(s) == \A i, j \in 1..Len(s) : i # j => s[i] # s[j]

IsAscending(s) == \A i \in 1..Len(s) - 1 : s[i] < s[i + 1]

RECURSIVE Insert(_, _)
Insert(e, s) ==
    IF s = <<>> THEN <<e>>
    ELSE IF e <= Head(s) THEN <<e>> \o s
    ELSE <<Head(s)>> \o Insert(e, Tail(s))

\* list.sort(): ascending, duplicates kept
RECURSIVE Sorted(_)
Sorted(s) == IF s = <<>> THEN <<>> ELSE Insert(Head(s), Sorted(Tail(s)))

\* the members of a set as an ascending list
RECURSIVE SortedSet(_)
SortedSet(S) ==
    IF S = {} THEN <<>>
    ELSE LET m == CHOOSE a \in S : \A b \in S : a <= b
         IN  <<m>> \o SortedSet(S \ {m})

\* range(n): empty when n <= 0
PyRange(n) == [i \in 1..n |-> i - 1]

----------------------------------------------------------------------------
(* networkx.Graph                                                          *)

None == [none |-> TRUE]

EmptyGraph == [nodes |-> <<>>, adj |-> <<>>]

NodeSet(g) == Range(g.nodes)

add_node(g, u) ==
    IF u \in NodeSet(g) THEN g
    ELSE [nodes |-> Append(g.nodes, u),
          adj   |-> [n \in NodeSet(g) \cup {u} |->
                        IF n = u THEN {} ELSE g.adj[n]]]

RECURSIVE add_nodes_from(_, _)
add_nodes_from(g, ns) ==
    IF ns = <<>> THEN g ELSE add_nodes_from(add_node(g, Head(ns)), Tail(ns))

add_edge(g, u, v) ==
    LET h == add_node(add_node(g, u), v)
    IN  [nodes |-> h.nodes,
         adj   |-> [n \in NodeSet(h) |->
                       IF n = u /\ n = v THEN h.adj[n] \cup {u}
                       ELSE IF n = u THEN h.adj[n] \cup {v}
                       ELSE IF n = v THEN h.adj[n] \cup {u}
                       ELSE h.adj[n]]]

\* the position of a node in the iteration order of G
Index(g, u) == CHOOSE i \in 1..Len(g.nodes) : g.nodes[i] = u

\* G.edges: every edge once, from the endpoint iterated first
EdgesFrom(g, i) ==
    LET u == g.nodes[i]
        later == {v \in g.adj[u] : Index(g, v) >= i}
        vs == SelectSeq(g.nodes, LAMBDA v : v \in later)
    IN  [j \in 1..Len(vs) |-> <<u, vs[j]>>]

RECURSIVE EdgeList(_, _)
EdgeList(g, i) ==
    IF i > Len(g.nodes) THEN <<>> ELSE EdgesFrom(g, i) \o EdgeList(g, i + 1)

EdgeSet(g) == {{e[1], e[2]} : e \in Range(EdgeList(g, 1))}

----------------------------------------------------------------------------
(* Files: lines of tokens.                                                 *)

IntTok(n) == [k |-> "int", v |-> n]

Txt(s) == [k |-> s, v |-> 0]

\* str.split(sep)
RECURSIVE Split(_, _)
Split(s, sep) ==
    IF s = <<>> THEN << <<>> >>
    ELSE LET rest == Split(Tail(s), sep)
         IN  IF Head(s).k = sep THEN << <<>> >> \o rest
             ELSE << <<Head(s)>> \o Head(rest) >> \o Tail(rest)

\* int(s) succeeds on a single integer literal and raises ValueError otherwise
IsInt(s) == Len(s) = 1 /\ s[1].k = "int"

NoFile == [exists |-> FALSE, lines |-> <<>>]

TextFile(ls) == [exists |-> TRUE, lines |-> ls]

\* file.readline(): the empty string past the end of the file
ReadLine(f, i) == IF i <= Len(f.lines) THEN f.lines[i] ELSE <<>>

----------------------------------------------------------------------------
(* load                                                                    *)

\* one pass of "for edge in edges": None stands for the exception that a
\* malformed entry raises (ValueError from int, IndexError from [1])
RECURSIVE LoadEdges(_, _)
LoadEdges(g, edges) ==
    IF edges = <<>> THEN g
    ELSE LET parts == Split(Head(edges), ",")
         IN  IF ~IsInt(parts[1]) THEN None
             ELSE IF Len(parts) < 2 THEN None
             ELSE IF ~IsInt(parts[2]) THEN None
             ELSE LoadEdges(add_edge(g, parts[1][1].v, parts[2][1].v),
                            Tail(edges))

\* the graph load returns, or None after either except clause
load(file) ==
    IF ~file.exists THEN None
    ELSE LET line == ReadLine(file, 1)
         IN  IF ~IsInt(line) THEN None
             ELSE LoadEdges(add_nodes_from(EmptyGraph, PyRange(line[1].v)),
                            Split(ReadLine(file, 2), ";"))

----------------------------------------------------------------------------
(* create_graph                                                            *)

\* the edge prompt: an entry is added when it passes the test of line 148
\* and is answered with "Invalid Entry" otherwise
RECURSIVE AddEntries(_, _, _)
AddEntries(g, nodes, entries) ==
    IF entries = <<>> THEN g
    ELSE LET n1 == Head(entries)[1]
             n2 == Head(entries)[2]
         IN  IF n1 # n2 /\ n1 \in 0..nodes - 1 /\ n2 \in 0..nodes - 1
             THEN AddEntries(add_edge(g, n1, n2), nodes, Tail(entries))
             ELSE AddEntries(g, nodes, Tail(entries))

create_graph(nodes, entries) ==
    AddEntries(add_nodes_from(EmptyGraph, PyRange(nodes)), nodes, entries)

\* the prompt loop ends only with "N" after an entry that was added
EndsAdded(nodes, entries) ==
    LET e == entries[Len(entries)]
    IN  e[1] # e[2] /\ e[1] \in 0..nodes - 1 /\ e[2] \in 0..nodes - 1

----------------------------------------------------------------------------
(* The inputs of a session.                                                *)

SeqsUpTo(S, n) == UNION {[1..m -> S] : m \in 0..n}

Entries == (0..MaxNodes - 1) \X (0..MaxNodes - 1)

\* the node count is asked again while it is <= 1
CreatedGraphs ==
    {create_graph(n, es) :
        <<n, es>> \in {p \in (0..MaxNodes) \X (SeqsUpTo(Entries, MaxEdges) \ {<<>>}) :
                          p[1] > 1 /\ EndsAdded(p[1], p[2])}}

FileVertices == (0 - 1)..MaxVertex

RECURSIVE EdgeLine(_)
EdgeLine(es) ==
    IF es = <<>> THEN <<>>
    ELSE LET e == <<IntTok(Head(es)[1]), Txt(","), IntTok(Head(es)[2])>>
         IN  IF Tail(es) = <<>> THEN e ELSE e \o <<Txt(";")>> \o EdgeLine(Tail(es))

\* a file in the format of load: the count, then "u1,v1;u2,v2;..."
GraphFile(n, es) == TextFile(<< <<IntTok(n)>>, EdgeLine(es) >>)

\* files whose format is broken: no count, a one-line file, an edge
\* without its second endpoint, an endpoint that is no number
BrokenFiles ==
    {TextFile(<< <<Txt("nodes")>>, EdgeLine(<< <<0, 1>> >>) >>),
     TextFile(<< <<IntTok(2)>> >>),
     TextFile(<< <<IntTok(2)>>, <<IntTok(0)>> >>),
     TextFile(<< <<IntTok(2)>>, <<IntTok(0), Txt(","), Txt("b")>> >>)}

Files ==
    {NoFile} \cup BrokenFiles \cup
    {GraphFile(n, es) : n \in 0..MaxVertex + 1,
                        es \in SeqsUpTo(FileVertices \X FileVertices, MaxFileEdges)}

----------------------------------------------------------------------------
(* The subset variables: xs and lp_xs.                                     *)

\* itertools.combinations(s, L), in the order it yields them
RECURSIVE Combinations(_, _)
Combinations(s, L) ==
    IF L = 0 THEN << <<>> >>
    ELSE IF Len(s) < L THEN <<>>
    ELSE LET with == Combinations(Tail(s), L - 1)
         IN  [i \in 1..Len(with) |-> <<Head(s)>> \o with[i]]
             \o Combinations(Tail(s), L)

\* xs[subset] = 0 on a dict: a key already present keeps its place
RECURSIVE DictKeys(_, _)
DictKeys(keys, new) ==
    IF new = <<>> THEN keys
    ELSE DictKeys(IF Head(new) \in Range(keys) THEN keys
                  ELSE Append(keys, Head(new)), Tail(new))

\* the keys of xs after "for L in range(0, len(G.nodes) + 1)", from size L on
RECURSIVE SubsetKeys(_, _, _)
SubsetKeys(g, L, keys) ==
    IF L > Len(g.nodes) THEN keys
    ELSE SubsetKeys(g, L + 1, DictKeys(keys, Combinations(g.nodes, L)))

----------------------------------------------------------------------------
(* networkx.enumerate_all_cliques, as line 16 uses it.                     *)

\* nbrs[u]: the neighbours of u that come after u in the iteration order
LaterNbrs(g, u) == {v \in g.adj[u] : Index(g, v) > Index(g, u)}

\* filter(nbrs[u].__contains__, islice(cnbrs, i + 1, None))
CommonNbrs(g, u, rest) == SelectSeq(rest, LAMBDA w : w \in LaterNbrs(g, u))

\* the queue entries that one popped (base, cnbrs) appends
Extensions(g, base, cnbrs) ==
    [i \in 1..Len(cnbrs) |->
        [base  |-> Append(base, cnbrs[i]),
         cnbrs |-> CommonNbrs(g, cnbrs[i], SubSeq(cnbrs, i + 1, Len(cnbrs)))]]

RECURSIVE CliqueLoop(_, _, _)
CliqueLoop(g, queue, out) ==
    IF queue = <<>> THEN out
    ELSE CliqueLoop(g,
                    Tail(queue) \o Extensions(g, Head(queue).base, Head(queue).cnbrs),
                    Append(out, Head(queue).base))

enumerate_all_cliques(g) ==
    CliqueLoop(g,
               [i \in 1..Len(g.nodes) |->
                   [base  |-> <<g.nodes[i]>>,
                    cnbrs |-> SelectSeq(g.nodes,
                                 LAMBDA v : v \in LaterNbrs(g, g.nodes[i]))]],
               <<>>)

----------------------------------------------------------------------------
(* fractional_clique_cover: the model it builds.                           *)

\* a mutant of CoverConstraint: the test "if vertex in clique" is lost
CoverConstraintUntested(K, vertex) == [vertex |-> vertex, terms |-> K]

\* lines 31-38 for one vertex: the constraint sum(terms) >= 1
CoverConstraint(K, vertex) ==
    [vertex |-> vertex,
     terms  |-> SelectSeq(K, LAMBDA clique : vertex \in Range(clique))]

\* the keys a constraint looks up in lp_xs that lp_xs does not hold
MissingTerms(keys, cons) ==
    {t \in UNION {Range(cons[i].terms) : i \in 1..Len(cons)} : t \notin Range(keys)}

NoCover ==
    [built |-> FALSE, keys |-> <<>>, K |-> <<>>, cons |-> <<>>,
     status |-> "", reads |-> 0, total |-> NoResult]

\* lines 8-38: xs, K, the objective over every variable, a constraint per vertex
CoverModel(g) ==
    LET keys == SubsetKeys(g, 0, <<>>)
        K == enumerate_all_cliques(g)
    IN  [built |-> TRUE, keys |-> keys, K |-> K,
         cons |-> [i \in 1..Len(g.nodes) |-> CoverConstraint(K, g.nodes[i])],
         status |-> "", reads |-> 0, total |-> NoResult]

----------------------------------------------------------------------------
(* shannon_entropy: the model it builds.                                   *)

\* a loop's progress: the constraints added so far, and the key whose lookup
\* in lp_xs raised KeyError (<<key>>), if one did
Progress(cons, keyError) == [cons |-> cons, keyError |-> keyError]

\* lines 82-89: constraint 3, X_(N(v) u {v}) - X_N(v) == 0, vertex by vertex
RECURSIVE LocalLoop(_, _, _, _)
LocalLoop(g, keys, i, cons) ==
    IF i > Len(g.nodes) THEN Progress(cons, <<>>)
    ELSE LET vertex == g.nodes[i]
             N_v == SortedSet(g.adj[vertex])
             N_v_u_v == Sorted(Append(SortedSet(g.adj[vertex]), vertex))
         IN  IF N_v_u_v \notin Range(keys) THEN Progress(cons, <<N_v_u_v>>)
             ELSE IF N_v \notin Range(keys) THEN Progress(cons, <<N_v>>)
             ELSE LocalLoop(g, keys, i + 1,
                     Append(cons, [vertex |-> vertex, plus |-> N_v_u_v, minus |-> N_v]))

\* set(S).issubset(T)
IsSubset(S, T) == Range(S) \subseteq Range(T)

\* lines 99-106 for one pair: constraint 4 when S is a subset of T, else
\* constraint 5 with the sorted union and intersection as keys
Pairwise(S, T) ==
    IF IsSubset(S, T)
    THEN [kind |-> "monotone", S |-> S, T |-> T, union |-> <<>>, inter |-> <<>>]
    ELSE [kind |-> "submodular", S |-> S, T |-> T,
          union |-> SortedSet(Range(S \o T)),
          inter |-> Sorted(SelectSeq(S, LAMBDA val : val \in Range(T)))]

\* the first key of a pair's constraint that lp_xs does not hold
PairKeyError(keys, c) ==
    IF c.kind = "monotone" THEN <<>>
    ELSE IF c.union \notin Range(keys) THEN <<c.union>>
    ELSE IF c.inter \notin Range(keys) THEN <<c.inter>>
    ELSE <<>>

\* lines 94-106: x in range(len(xs)-2), y in range(x+1, len(xs)-1); here a and
\* b are the positions x+1 and y+1 in list(xs)
RECURSIVE PairLoop(_, _, _, _)
PairLoop(keys, a, b, cons) ==
    IF a > Len(keys) - 2 THEN Progress(cons, <<>>)
    ELSE IF b > Len(keys) - 1 THEN PairLoop(keys, a + 1, a + 2, cons)
    ELSE LET c == Pairwise(keys[a], keys[b])
         IN  IF PairKeyError(keys, c) # <<>>
             THEN Progress(Append(cons, c), PairKeyError(keys, c))
             ELSE PairLoop(keys, a, b + 1, Append(cons, c))

NoEntropy ==
    [built |-> FALSE, keys |-> <<>>, objective |-> <<>>, bounded |-> <<>>,
     local |-> <<>>, pairwise |-> <<>>, keyError |-> <<>>,
     status |-> "", reads |-> 0, val |-> NoResult]

\* lines 57-106: xs, the objective X_V (the last key), constraints 1 to 5.
\* A KeyError ends the construction where it is raised.
EntropyModel(g) ==
    LET keys == SubsetKeys(g, 0, <<>>)
        local == LocalLoop(g, keys, 1, <<>>)
        pairs == IF local.keyError # <<>> THEN Progress(<<>>, local.keyError)
                 ELSE PairLoop(keys, 1, 2, <<>>)
    IN  [built |-> pairs.keyError = <<>>,
         keys |-> keys,
         objective |-> keys[Len(keys)],
         bounded |-> SelectSeq(keys, LAMBDA item : Len(item) = 1),
         local |-> local.cons,
         pairwise |-> pairs.cons,
         keyError |-> pairs.keyError,
         status |-> "", reads |-> 0, val |-> NoResult]

----------------------------------------------------------------------------
(* The solver.                                                             *)

\* pulp's LpStatus
Statuses == {"Optimal", "Not Solved", "Infeasible", "Unbounded", "Undefined"}

\* what prob.solve() leaves behind: the status, and whether varValue is a
\* number (it is None when the solver assigned none)
Optimal == {[status |-> "Optimal", hasValues |-> TRUE]}

AnyOutcome == [status : Statuses, hasValues : BOOLEAN] \ 
              {[status |-> "Optimal", hasValues |-> FALSE]}

----------------------------------------------------------------------------
(* save                                                                    *)

\* a mutant of NoResults: save without the test of line 185
NoResultsUnchecked(f, s) == FALSE

\* line 185
NoResults(f, s) == f = NoResult \/ s = NoResult

RECURSIVE Joined(_, _)
Joined(items, sep) ==
    IF items = <<>> THEN <<>>
    ELSE IF Tail(items) = <<>> THEN Head(items)
    ELSE Head(items) \o <<sep>> \o Joined(Tail(items), sep)

\* str(item) of a key: "(0, 1)"
KeyText(key) ==
    <<Txt("(")>> \o Joined([i \in 1..Len(key) |-> <<IntTok(key[i])>>], Txt(","))
                 \o <<Txt(")")>>

\* str(G.edges): "[(0, 1), (1, 2)]"
EdgesText(g) ==
    LET es == EdgeList(g, 1)
    IN  <<Txt("[")>> \o Joined([i \in 1..Len(es) |-> KeyText(es[i])], Txt(","))
                     \o <<Txt("]")>>

\* lines 198-199 and 201-202: one line per variable
ValueLines(vals) ==
    [i \in 1..Len(vals) |-> KeyText(vals[i]) \o <<Txt(" - "), IntTok(lowBound)>>]

\* lines 190-202: the file save writes
Report(f, s, f_vals, s_vals, g) ==
    TextFile(<< <<Txt("Graph: ")>>,
                <<Txt("Number Of Nodes: "), IntTok(Len(g.nodes))>>,
                <<Txt("Edges: ")>> \o EdgesText(g),
                <<>>,
                <<Txt("Results:")>>,
                <<Txt("Fractional Clique Cover - "), IntTok(f)>>,
                <<Txt("Shannon Entropy - "), IntTok(s)>>,
                <<>>,
                <<Txt("Fractional Clique Cover (All Values):")>> >>
             \o ValueLines(f_vals)
             \o << <<>>, <<>>, <<Txt("Shannon Entropy (All Values):")>> >>
             \o ValueLines(s_vals))

----------------------------------------------------------------------------
(* main: the session.                                                      *)

Init ==
    /\ pc = "menu"
    /\ x = -1
    /\ G = EmptyGraph
    /\ fcc = NoResult
    /\ shannon_ent = NoResult
    /\ fcc_vals = <<>>
    /\ shannon_vals = <<>>
    /\ written = NoFile
    /\ cover = NoCover
    /\ entropy = NoEntropy
    /\ err = ""

\* x == 0
Exit ==
    /\ pc = "menu"
    /\ x' = 0
    /\ pc' = "exited"
    /\ written' = NoFile
    /\ UNCHANGED <<G, fcc, shannon_ent, fcc_vals, shannon_vals, cover, entropy, err>>

\* x == 1
NewGraph ==
    /\ pc = "menu"
    /\ x' = 1
    /\ \E g \in CreatedGraphs : G' = g
    /\ fcc' = NoResult /\ shannon_ent' = NoResult
    /\ fcc_vals' = <<>> /\ shannon_vals' = <<>>
    /\ written' = NoFile
    /\ UNCHANGED <<pc, cover, entropy, err>>

\* x == 2: the file named is one of Files or the file save has just written
LoadGraph ==
    /\ pc = "menu"
    /\ x' = 2
    /\ \E f \in Files \cup {written} : G' = load(f)
    /\ fcc' = NoResult /\ shannon_ent' = NoResult
    /\ fcc_vals' = <<>> /\ shannon_vals' = <<>>
    /\ written' = NoFile
    /\ UNCHANGED <<pc, cover, entropy, err>>

Raise(e) == pc' = "crashed" /\ err' = e

\* x == 3, line 122: fractional_clique_cover(G) with the solver leaving o
CoverStep(o) ==
    /\ pc = "menu"
    /\ x' = 3
    /\ written' = NoFile
    /\ UNCHANGED <<G, fcc, shannon_ent, fcc_vals, shannon_vals, entropy>>
    /\ IF G = None
       THEN Raise("AttributeError") /\ UNCHANGED cover
       ELSE LET m == CoverModel(G)
            IN  IF MissingTerms(m.keys, m.cons) # {}
                THEN Raise("KeyError") /\ cover' = [m EXCEPT !.built = FALSE]
                ELSE IF ~o.hasValues
                THEN /\ Raise("TypeError")
                     /\ cover' = [m EXCEPT !.status = o.status, !.reads = 1]
                ELSE /\ pc' = "fcc_returned"
                     /\ err' = err
                     /\ cover' = [m EXCEPT !.status = o.status,
                                           !.reads = Len(m.keys),
                                           !.total = lowBound]

\* line 123: shannon_entropy(G) with the solver leaving o
EntropyStep(o) ==
    /\ pc = "fcc_returned"
    /\ UNCHANGED <<x, G, fcc, shannon_ent, fcc_vals, shannon_vals, written, cover>>
    /\ LET m == EntropyModel(G)
       IN  IF m.keyError # <<>>
           THEN Raise("KeyError") /\ entropy' = m
           ELSE IF ~o.hasValues
           THEN /\ Raise("TypeError")
                /\ entropy' = [m EXCEPT !.status = o.status, !.reads = 1]
           ELSE /\ pc' = "shannon_returned"
                /\ err' = err
                /\ entropy' = [m EXCEPT !.status = o.status, !.reads = 1,
                                        !.val = lowBound]

\* lines 124 and 240: the results reach main, the two models are dropped
CalculateReturn ==
    /\ pc = "shannon_returned"
    /\ pc' = "menu"
    /\ fcc' = cover.total
    /\ fcc_vals' = cover.keys
    /\ shannon_ent' = entropy.val
    /\ shannon_vals' = entropy.keys
    /\ cover' = NoCover
    /\ entropy' = NoEntropy
    /\ UNCHANGED <<x, G, written, err>>

\* x == 4
Save ==
    /\ pc = "menu"
    /\ x' = 4
    /\ UNCHANGED <<G, fcc, shannon_ent, fcc_vals, shannon_vals, cover, entropy>>
    /\ IF NoResults(fcc, shannon_ent)
       THEN written' = NoFile /\ UNCHANGED <<pc, err>>
       ELSE IF G = None
       THEN /\ Raise("AttributeError")
            /\ written' = TextFile(<< <<Txt("Graph: ")>> >>)
       ELSE /\ written' = Report(fcc, shannon_ent, fcc_vals, shannon_vals, G)
            /\ UNCHANGED <<pc, err>>

\* the solver as its contract has it: both programs are feasible and bounded
FractionalCliqueCover == \E o \in Optimal : CoverStep(o)

ShannonEntropy == \E o \in Optimal : EntropyStep(o)

Next ==
    \/ Exit
    \/ NewGraph
    \/ LoadGraph
    \/ FractionalCliqueCover
    \/ ShannonEntropy
    \/ CalculateReturn
    \/ Save

Spec == Init /\ [][Next]_vars

\* a solver that may report any status
CoverAnyStatus == \E o \in AnyOutcome : CoverStep(o)

EntropyAnyStatus == \E o \in AnyOutcome : EntropyStep(o)

NextAnyStatus ==
    \/ Exit
    \/ NewGraph
    \/ LoadGraph
    \/ CoverAnyStatus
    \/ EntropyAnyStatus
    \/ CalculateReturn
    \/ Save

SolverSpec == Init /\ [][NextAnyStatus]_vars

----------------------------------------------------------------------------
(* Properties.                                                             *)

AllKeys(g) == SubsetKeys(g, 0, <<>>)

\* the vertex sets of g that contain v and are pairwise adjacent
CliquesWith(g, v) ==
    {S \in SUBSET NodeSet(g) :
        v \in S /\ \A a, b \in S : a # b => b \in g.adj[a]}

\* C1: in the model fractional_clique_cover builds, every vertex v has exactly
\* one covering constraint, and its terms are the variables of exactly the
\* cliques of G that contain v, each once: no variable of a non-clique subset
\* is in any constraint.
C1_CoverConstraints ==
    cover.built =>
        /\ Len(cover.cons) = Len(G.nodes)
        /\ \A v \in NodeSet(G) :
              Cardinality({i \in DOMAIN cover.cons : cover.cons[i].vertex = v}) = 1
        /\ \A i \in DOMAIN cover.cons :
              LET c == cover.cons[i]
              IN  /\ IsDistinct(c.terms)
                  /\ Range(c.terms) \subseteq Range(cover.keys)
                  /\ \A t \in Range(c.terms) : IsDistinct(t)
                  /\ {Range(t) : t \in Range(c.terms)} = CliquesWith(G, c.vertex)
                  /\ Len(c.terms) = Cardinality(CliquesWith(G, c.vertex))

\* a cover model of a graph with an edge clique and a subset that is no clique
C1_Witness ==
    /\ pc = "fcc_returned"
    /\ cover.built
    /\ \E i \in DOMAIN cover.cons : \E t \in Range(cover.cons[i].terms) : Len(t) >= 2
    /\ \E k \in Range(cover.keys) :
          /\ Len(k) >= 2
          /\ \A i \in DOMAIN cover.cons : k \notin Range(cover.cons[i].terms)

\* C2: in the model shannon_entropy builds, every unordered pair of distinct
\* subsets S, T of the whole subset space, the pairs with the full vertex set
\* included, has exactly one pairwise constraint: monotonicity when one is a
\* subset of the other, submodularity otherwise.
C2_EveryPairConstrained ==
    entropy.built =>
        \A i, j \in DOMAIN entropy.keys :
            i < j =>
                LET S == entropy.keys[i]
                    T == entropy.keys[j]
                    hits == {n \in DOMAIN entropy.pairwise :
                                {entropy.pairwise[n].S, entropy.pairwise[n].T} = {S, T}}
                IN  /\ Cardinality(hits) = 1
                    /\ \A n \in hits :
                          entropy.pairwise[n].kind =
                              IF IsSubset(S, T) \/ IsSubset(T, S)
                              THEN "monotone" ELSE "submodular"

\* shannon_entropy has been entered
EntropyRan == entropy.keys # <<>>

\* C3: in the model shannon_entropy builds, for every vertex v of any graph the
\* session holds the equality X_(N(v) u {v}) - X_N(v) == 0 is there, and both
\* keys it looks up are subset variables: no lookup fails.
C3_LocalDependency ==
    EntropyRan =>
        \A v \in NodeSet(G) :
            \E c \in Range(entropy.local) :
                /\ c.vertex = v
                /\ c.plus = SortedSet(G.adj[v] \cup {v})
                /\ c.minus = SortedSet(G.adj[v])
                /\ c.plus \in Range(entropy.keys)
                /\ c.minus \in Range(entropy.keys)

\* 2^n
RECURSIVE Pow2(_)
Pow2(n) == IF n = 0 THEN 1 ELSE 2 * Pow2(n - 1)

KeysOfSubsets(keys, g) ==
    /\ Len(keys) = Pow2(Len(g.nodes))
    /\ IsDistinct(keys)
    /\ {Range(k) : k \in Range(keys)} = SUBSET NodeSet(g)
    /\ \A k \in Range(keys) : IsAscending(k)

\* C4: both functions create exactly 2^n keys for a graph of n vertices, one
\* per vertex subset, none twice, each a tuple in ascending vertex order, for
\* every graph create_graph or load produces.
C4_SubsetKeys ==
    /\ cover.keys # <<>> => KeysOfSubsets(cover.keys, G)
    /\ entropy.keys # <<>> => KeysOfSubsets(entropy.keys, G)

\* C5: after the solver returns, the variable values are read only when the
\* status is optimal; for any other status no value is read and no error is
\* raised.
C5_ValuesReadOnlyWhenOptimal ==
    /\ cover.status \notin {"", "Optimal"} => cover.reads = 0 /\ err # "TypeError"
    /\ entropy.status \notin {"", "Optimal"} => entropy.reads = 0 /\ err # "TypeError"

\* the well-formed entries "u,v" of a file's edge list
EntryPairs(f) ==
    {<<p[1][1].v, p[2][1].v>> :
        p \in {q \in {Split(e, ",") : e \in Range(Split(ReadLine(f, 2), ";"))} :
                  Len(q) >= 2 /\ IsInt(q[1]) /\ IsInt(q[2])}}

\* the file has a count n and an edge that is a self-loop or leaves 0..n-1
HasBadEdge(f) ==
    /\ f.exists
    /\ IsInt(ReadLine(f, 1))
    /\ \E e \in EntryPairs(f) :
          \/ e[1] = e[2]
          \/ e[1] \notin 0..ReadLine(f, 1)[1].v - 1
          \/ e[2] \notin 0..ReadLine(f, 1)[1].v - 1

\* C6: load returns no graph for every file whose edge list holds a self-loop
\* or an endpoint outside 0..n-1, n being the count on the first line.
C6_LoadRejectsBadEdges ==
    [][(pc = "menu" /\ x' = 2) =>
          \A f \in Files : (HasBadEdge(f) /\ G' = load(f)) => G' = None]_vars

\* C7: every menu action returns to the menu prompt: no session state ends
\* the program with an uncaught error.
C7_NoUncaughtError == pc # "crashed"

\* no Calculate has completed since the graph was last replaced
Stale == fcc = NoResult

\* C8: Save writes a file only if a Calculate has completed after the most
\* recent New Graph or Load Graph, and what it writes is the report of the
\* current graph with the variable maps of that graph; in every other state
\* Save writes nothing and leaves the graph and the results as they are.
C8_SaveOnlyFreshResults ==
    /\ Stale
    /\ [][/\ (pc = "menu" /\ x' \in {1, 2}) => Stale'
          /\ (Stale /\ pc # "shannon_returned") => Stale'
          /\ (pc = "menu" /\ x' = 4 /\ Stale) =>
                /\ written' = NoFile
                /\ UNCHANGED <<pc, G, fcc, shannon_ent, fcc_vals, shannon_vals>>
          /\ written' # NoFile =>
                /\ x' = 4 /\ ~Stale
                /\ G # None /\ G' = G
                /\ fcc_vals = AllKeys(G) /\ shannon_vals = AllKeys(G)
                /\ written' = Report(fcc, shannon_ent, fcc_vals, shannon_vals, G)
                /\ UNCHANGED <<pc, fcc, shannon_ent, fcc_vals, shannon_vals>>]_vars

\* Save has written the report of a graph with an edge
C8_Witness ==
    /\ x = 4
    /\ written # NoFile
    /\ ~Stale
    /\ EdgeSet(G) # {}

\* C9: the file save writes, read back by load, gives a graph with the same
\* vertex set and edge set.
C9_SaveLoadRoundTrip ==
    [][(pc = "menu" /\ x' = 2 /\ written # NoFile /\ G' = load(written)) =>
          /\ G' # None
          /\ NodeSet(G') = NodeSet(G)
          /\ EdgeSet(G') = EdgeSet(G)]_vars

\* C10: in the pairwise loop no submodularity constraint is made for a pair in
\* a subset relation, every monotonicity constraint has S a subset of T, and
\* the union and intersection keys of every submodularity constraint are
\* subset variables.
C10_PairwiseLoop ==
    \A c \in Range(entropy.pairwise) :
        /\ c.kind = "monotone" => IsSubset(c.S, c.T)
        /\ c.kind = "submodular" =>
              /\ ~IsSubset(c.S, c.T) /\ ~IsSubset(c.T, c.S)
              /\ c.union \in Range(entropy.keys)
              /\ c.inter \in Range(entropy.keys)

====
